---------------------------- MODULE Spec2Model ----------------------------
(***************************************************************************)
(* The GPU dispatch-and-readback pipeline of parallel_sums_64.rs (the      *)
(* decomposed reduction: init_wgpu, create_buffers,                        *)
(* create_pipeline_and_bindgroup, dispatch_and_read_partials, run) and of  *)
(* introduction.rs (the monolithic identity-kernel run), as one host       *)
(* control path that issues work to one device.                            *)
(*                                                                         *)
(* The host is a program counter pc over the statements of the source; the *)
(* device is the wgpu queue (commands submitted and not yet completed) and *)
(* the map state of the staging buffer.  The compute kernels live in       *)
(* shaders/*.wgsl and are modelled from their binding contract.            *)
(*                                                                         *)
(* TLC's integers are 32-bit signed, so an unsigned 32-bit word cannot be  *)
(* held at its width: a u32 is modelled as a word of `width' bits and a    *)
(* u64 as a word of twice that many bits.  The workgroup size stays 64.    *)
(* Spec and AllSpec run small element counts on a narrow word (WordBits),  *)
(* where sums wrap; ScenarioSpec runs the element counts of the source on  *)
(* a word wide enough that nothing wraps; ReducerSpec tries the host       *)
(* reducer on every value of a very narrow word.                           *)
(***************************************************************************)
EXTENDS Integers, Sequences, FiniteSets, TLC

\* ------------------------------------------------------------- bounds
\* Width of the model's "u32" word; the "u64" accumulators have 2*WordBits.
WordBits == 13
\* Largest number of workgroups of a run (n ranges up to 64*MaxGroups).
MaxGroups == 4
\* Calls of dispatch_and_read_partials an API-level caller makes.
MaxCalls == 2

\* -------------------------------------------------- program constants
\* let elements_per_group: u32 = 64;
elements_per_group == 64
\* std::mem::size_of::<u32>()
size_of_u32 == 4

\* let n: u32 = 16_384;  (parallel_sums_64::run)
SumsN == 16384
\* (0..10_000u32)  (introduction::run)
IntroN == 10000

WordMod == 2 ^ WordBits
WideMod == WordMod * WordMod

\* Width of the "u32" word in the runs of the two programs at the element
\* counts of the source (16_384 and 10_000): wide enough for every value of
\* those runs, so that nothing wraps there that does not wrap at 32 bits.
ScenarioBits == 20
\* Width of the "u32" word where the host reducer is tried on every word.
ReducerBits == 8

\* The element counts tried: whole multiples of the workgroup size and
\* ragged counts (introduction.rs runs 10_000 = 156*64 + 16 elements).
RaggedTail == 16
NValues ==
    { elements_per_group * g : g \in 1..MaxGroups }
        \cup { elements_per_group * (g - 1) + RaggedTail : g \in 1..MaxGroups }

\* ------------------------------------------------------------- state
VARIABLES
    prog,             \* which run: "sums" (parallel_sums_64) | "intro"
    caller,           \* "run" (the program) | "api" (a caller of the pub fns)
    n,                \* total element count
    width,            \* bits of a u32 in this run (a u64 has twice as many)
    pc,               \* the host's position
    ret,              \* value a function returned: "ok" or the error
    result,           \* what run returned: "running", "ok", an error, a panic
    num_groups,       \* run: n / elements_per_group (create_buffers' argument)
    dispatch_groups,  \* the num_groups argument of dispatch_and_read_partials
    input_data,       \* host Vec<u32> uploaded at creation
    device,           \* "none" | "ready" | "lost"
    input_buffer,     \* [state, size, data]
    partials_buffer,  \* [state, size, data]  (output_buffer of introduction.rs)
    staging,          \* [state, size, data, map]  (temp_buffer)
    bound,            \* pipeline and bind group exist
    encoder,          \* commands recorded and not yet submitted
    queue,            \* commands submitted and not yet completed by the device
    channels,         \* every oneshot channel created, in order
    data,             \* the host holds the mapped view (BufferView)
    readout,          \* what the host read: [kind, vals]
    gpu_total,        \* host sum of the partials (u64)
    expected,         \* n*(n+1)/2 (u64)
    mismatches,       \* introduction: outputs that differ from the input
    calls,            \* calls of dispatch_and_read_partials made so far
    hist              \* the steps taken, in order

vars == << prog, caller, n, width, pc, ret, result, num_groups, dispatch_groups,
           input_data, device, input_buffer, partials_buffer, staging, bound,
           encoder, queue, channels, data, readout, gpu_total, expected,
           mismatches, calls, hist >>

\* Arithmetic of the machine types.  A modulus of more than 30 bits is beyond
\* TLC's integers, and so is every value it would reduce: the reduction is
\* then the identity.
AsU32(x) == x % (2 ^ width)
AsU64(x) == IF 2 * width > 30 THEN x ELSE x % (2 ^ (2 * width))

NoBuffer == [state |-> "absent", size |-> 0, data |-> << >>]
NoStaging == [state |-> "absent", size |-> 0, data |-> << >>, map |-> "unmapped"]
NoReadout == [kind |-> "none", vals |-> << >>]

Zeros(len) == [i \in 1..len |-> 0]

Log(e) == hist' = Append(hist, e)

\* ------------------------------------------------ the kernels (WGSL)
\* Binding contract of parallel_sums_64.wgsl: slot 1 holds one u32 per
\* workgroup, the workgroup-local reduction of elements_per_group contiguous
\* input elements.  The sum is a u32 sum: it wraps.
RECURSIVE SumSlice(_, _, _)
SumSlice(in, lo, hi) ==
    IF lo = hi THEN (IF lo <= Len(in) THEN in[lo] ELSE 0)
    ELSE LET mid == (lo + hi) \div 2 IN
           AsU32(SumSlice(in, lo, mid) + SumSlice(in, mid + 1, hi))

WorkgroupSum(in, k) ==
    SumSlice(in, elements_per_group * k + 1,
             elements_per_group * k + elements_per_group)

\* The reduction kernel dispatched over g workgroups.
KernelSums(in, out, g) ==
    [k \in 1..Len(out) |-> IF k <= g THEN WorkgroupSum(in, k - 1) ELSE out[k]]

\* introduction.wgsl, the identity kernel: output[i] = input[i], one
\* invocation per element, 64 invocations per workgroup.
KernelIdentity(in, out, g) ==
    [i \in 1..Len(out) |->
        IF i <= elements_per_group * g /\ i <= Len(in) THEN in[i] ELSE out[i]]

\* ---------------------------------------------------- the device (wgpu)
DispatchCmd(kernel, g) == [op |-> "dispatch", kernel |-> kernel, arg |-> g]
CopyCmd(bytes) == [op |-> "copy", kernel |-> "none", arg |-> bytes]

\* copy_buffer_to_buffer(src, 0, dst, 0, bytes) is valid only within both
\* buffers; wgpu reports anything else as a validation error, which panics.
CopyInBounds(bytes) ==
    bytes <= partials_buffer.size /\ bytes <= staging.size

\* The first `bytes` bytes of src over dst.
CopyBytes(src, dst, bytes) ==
    [i \in 1..Len(dst) |->
        IF i <= bytes \div size_of_u32 /\ i <= Len(src) THEN src[i] ELSE dst[i]]

\* The device completes the oldest submitted command (FIFO queue).
DeviceExecute ==
    /\ device = "ready"
    /\ queue # << >>
    /\ LET cmd == Head(queue) IN
         /\ queue' = Tail(queue)
         /\ IF cmd.op = "dispatch"
              THEN /\ partials_buffer' =
                        [partials_buffer EXCEPT !.data =
                            IF cmd.kernel = "sums"
                              THEN KernelSums(input_buffer.data, @, cmd.arg)
                              ELSE KernelIdentity(input_buffer.data, @, cmd.arg)]
                   /\ staging' = staging
                   /\ Log("dev_dispatch")
              ELSE /\ staging' =
                        [staging EXCEPT !.data =
                            CopyBytes(partials_buffer.data, @, cmd.arg)]
                   /\ partials_buffer' = partials_buffer
                   /\ Log("dev_copy")
    /\ UNCHANGED << prog, caller, n, width, pc, ret, result, num_groups,
                    dispatch_groups, input_data, device, input_buffer, bound,
                    encoder, channels, data, readout, gpu_total, expected,
                    mismatches, calls >>

Terminal == pc \in {"done", "panicked"}

\* The device disappears (spec 4.5, outcome (a)): it completes nothing more
\* and answers no map request.
DeviceLost ==
    /\ device = "ready"
    /\ ~Terminal
    /\ device' = "lost"
    /\ Log("dev_lost")
    /\ UNCHANGED << prog, caller, n, width, pc, ret, result, num_groups,
                    dispatch_groups, input_data, input_buffer, partials_buffer,
                    staging, bound, encoder, queue, channels, data, readout,
                    gpu_total, expected, mismatches, calls >>

\* What the device answers to a map request when progress is forced: a
\* request it queued is granted or denied, one it rejected when it was made
\* (the buffer was mapped or had a request pending) is denied; a lost device
\* answers nothing and the callback (with the sender it owns) is dropped.
MapOutcomes(req) ==
    IF device = "lost" THEN {"dropped"}
    ELSE IF req = "queued" THEN {"granted", "denied"}
    ELSE {"denied"}

\* ----------------------------------------------------------- helpers
cfgVars == << prog, caller, n, width >>
bufVars == << input_buffer, partials_buffer, staging >>
sumVars == << gpu_total, expected, mismatches >>

LiveBuffer(bytes, contents) ==
    [state |-> "live", size |-> bytes, data |-> contents]

\* A local that owns a device resource is dropped when its scope ends.
Dropped(b) == [b EXCEPT !.state = IF @ = "live" THEN "destroyed" ELSE @]

DropResources ==
    /\ input_buffer' = Dropped(input_buffer)
    /\ partials_buffer' = Dropped(partials_buffer)
    /\ staging' = Dropped(staging)

\* oneshot_channel(): a sender and a receiver, nothing sent yet.
NewChannel(req) ==
    [state |-> "armed", value |-> "none", sends |-> 0, recvs |-> 0,
     requests |-> 1, req |-> req]

Cur == channels[Len(channels)]

SetCur(c) == channels' = [channels EXCEPT ![Len(channels)] = c]

\* Mutant of SumPartials: the accumulator has the element's width.
RECURSIVE SumNarrow(_, _, _)
SumNarrow(vals, lo, hi) ==
    IF lo > hi THEN 0
    ELSE IF lo = hi THEN AsU32(vals[lo])
    ELSE LET mid == (lo + hi) \div 2 IN
           AsU32(SumNarrow(vals, lo, mid) + SumNarrow(vals, mid + 1, hi))

SumPartialsNarrow(vals) == SumNarrow(vals, 1, Len(vals))

\* The u64 sum of vals[lo..hi]; the additions are taken pairwise (they wrap,
\* so their order does not matter).
RECURSIVE SumWide(_, _, _)
SumWide(vals, lo, hi) ==
    IF lo > hi THEN 0
    ELSE IF lo = hi THEN AsU64(vals[lo])
    ELSE LET mid == (lo + hi) \div 2 IN
           AsU64(SumWide(vals, lo, mid) + SumWide(vals, mid + 1, hi))

\* partials.iter().map(|&v| v as u64).sum()
SumPartials(vals) == SumWide(vals, 1, Len(vals))

\* Mutant of ExpectedTotal: the product taken in u32, without the casts.
ExpectedTotalNarrow(m) == AsU32(m * AsU32(m + 1)) \div 2

\* (n as u64) * (n as u64 + 1) / 2
ExpectedTotal(m) == AsU64(m * AsU64(m + 1)) \div 2

\* ------------------------------------------- parallel_sums_64::run
\* Mutant of RunPrecondition: the assert! left out.
RunPreconditionNoAssert ==
    /\ pc = "run_start"
    /\ prog = "sums"
    /\ num_groups' = n \div elements_per_group
    /\ input_data' = [i \in 1..n |-> AsU32(i)]
    /\ pc' = "init_adapter"
    /\ result' = result
    /\ Log("assert")
    /\ UNCHANGED << cfgVars, ret, dispatch_groups, device, bufVars, bound,
                    encoder, queue, channels, data, readout, sumVars, calls >>

\* Mutant of RunPrecondition: the group count rounded up one too far.
RunPreconditionExtraGroup ==
    /\ pc = "run_start"
    /\ prog = "sums"
    /\ IF n % elements_per_group = 0
         THEN /\ num_groups' = (n + elements_per_group) \div elements_per_group
              /\ input_data' = [i \in 1..n |-> AsU32(i)]
              /\ pc' = "init_adapter"
              /\ result' = result
              /\ Log("assert")
         ELSE /\ pc' = "panicked"
              /\ result' = "panic: assertion failed"
              /\ UNCHANGED << num_groups, input_data >>
              /\ Log("assert_failed")
    /\ UNCHANGED << cfgVars, ret, dispatch_groups, device, bufVars, bound,
                    encoder, queue, channels, data, readout, sumVars, calls >>

\* let n; assert!(n % elements_per_group == 0); num_groups; input_data
RunPrecondition ==
    /\ pc = "run_start"
    /\ prog = "sums"
    /\ IF n % elements_per_group = 0
         THEN /\ num_groups' = n \div elements_per_group
              /\ input_data' = [i \in 1..n |-> AsU32(i)]
              /\ pc' = "init_adapter"
              /\ result' = result
              /\ Log("assert")
         ELSE /\ pc' = "panicked"
              /\ result' = "panic: assertion failed"
              /\ UNCHANGED << num_groups, input_data >>
              /\ Log("assert_failed")
    /\ UNCHANGED << cfgVars, ret, dispatch_groups, device, bufVars, bound,
                    encoder, queue, channels, data, readout, sumVars, calls >>

\* init_wgpu: instance.request_adapter(..).await.ok_or(..)?
RequestAdapter ==
    /\ pc = "init_adapter"
    /\ \E found \in BOOLEAN :
         IF found
           THEN pc' = "init_device" /\ ret' = ret
           ELSE pc' = "ret_init_wgpu" /\ ret' = "No suitable GPU adapter found"
    /\ Log("request_adapter")
    /\ UNCHANGED << cfgVars, result, num_groups, dispatch_groups, input_data,
                    device, bufVars, bound, encoder, queue, channels, data,
                    readout, sumVars, calls >>

\* init_wgpu: adapter.request_device(..).await?; Ok((adapter, device, queue))
RequestDevice ==
    /\ pc = "init_device"
    /\ \E granted \in BOOLEAN :
         IF granted
           THEN device' = "ready" /\ ret' = "ok"
           ELSE device' = device /\ ret' = "RequestDeviceError"
    /\ pc' = "ret_init_wgpu"
    /\ Log("request_device")
    /\ UNCHANGED << cfgVars, result, num_groups, dispatch_groups, input_data,
                    bufVars, bound, encoder, queue, channels, data, readout,
                    sumVars, calls >>

\* run: let (adapter, device, queue) = init_wgpu().await?; println!(adapter)
RunAfterInit ==
    /\ pc = "ret_init_wgpu"
    /\ caller = "run"
    /\ IF ret = "ok"
         THEN pc' = "create_buffers" /\ result' = result /\ Log("print_adapter")
         ELSE pc' = "done" /\ result' = ret /\ Log("return_err")
    /\ UNCHANGED << cfgVars, ret, num_groups, dispatch_groups, input_data,
                    device, bufVars, bound, encoder, queue, channels, data,
                    readout, sumVars, calls >>

\* Mutant of partials_size: the element count taken for the byte size.
PartialsSizeInElements(groups) == AsU64(groups)

\* let partials_size = (num_groups as u64) * size_of::<u32>() as u64;
partials_size(groups) == AsU64(groups * size_of_u32)

\* create_buffers(device, input, num_groups)
CreateBuffers ==
    /\ pc = "create_buffers"
    /\ input_buffer' = LiveBuffer(Len(input_data) * size_of_u32, input_data)
    /\ partials_buffer' =
         LiveBuffer(partials_size(num_groups), Zeros(num_groups))
    /\ staging' =
         [state |-> "live", size |-> partials_size(num_groups),
          data |-> Zeros(num_groups), map |-> "unmapped"]
    /\ pc' = "create_pipeline"
    /\ Log("create_buffers")
    /\ UNCHANGED << cfgVars, ret, result, num_groups, dispatch_groups,
                    input_data, device, bound, encoder, queue, channels, data,
                    readout, sumVars, calls >>

\* create_pipeline_and_bindgroup(device, input_buffer, partials_buffer)
CreatePipelineAndBindgroup ==
    /\ pc = "create_pipeline"
    /\ input_buffer.state = "live"
    /\ partials_buffer.state = "live"
    /\ bound' = TRUE
    /\ pc' = "call_dispatch"
    /\ Log("create_pipeline_and_bindgroup")
    /\ UNCHANGED << cfgVars, ret, result, num_groups, dispatch_groups,
                    input_data, device, bufVars, encoder, queue, channels,
                    data, readout, sumVars, calls >>

\* run: dispatch_and_read_partials(.., &partials_buffer, &staging, num_groups)
RunCallDispatch ==
    /\ pc = "call_dispatch"
    /\ caller = "run"
    /\ dispatch_groups' = num_groups
    /\ calls' = calls + 1
    /\ pc' = "encode"
    /\ Log("call_dispatch")
    /\ UNCHANGED << cfgVars, ret, result, num_groups, input_data, device,
                    bufVars, bound, encoder, queue, channels, data, readout,
                    sumVars >>

\* ------------------------------------- dispatch_and_read_partials
\* Mutant of partials_bytes: the element count taken for the byte length.
PartialsBytesInElements(groups) == AsU64(groups)

\* let partials_bytes = (num_groups as u64) * size_of::<u32>() as u64;
partials_bytes(groups) == AsU64(groups * size_of_u32)

\* Mutant of Encode: the copy recorded before the compute pass.
EncodeCopyFirst ==
    /\ pc = "encode"
    /\ LET bytes == partials_bytes(dispatch_groups) IN
         IF CopyInBounds(bytes)
           THEN /\ encoder' = << CopyCmd(bytes),
                                 DispatchCmd("sums", dispatch_groups) >>
                /\ pc' = "submit"
                /\ result' = result
                /\ Log("encode")
           ELSE /\ encoder' = encoder
                /\ pc' = "panicked"
                /\ result' = "panic: validation error"
                /\ Log("validation_error")
    /\ UNCHANGED << cfgVars, ret, num_groups, dispatch_groups, input_data,
                    device, bufVars, bound, queue, channels, data, readout,
                    sumVars, calls >>

\* encoder: compute pass dispatch_workgroups(num_groups, 1, 1), then
\* copy_buffer_to_buffer(partials_buffer, 0, staging, 0, partials_bytes)
Encode ==
    /\ pc = "encode"
    /\ LET bytes == partials_bytes(dispatch_groups) IN
         IF CopyInBounds(bytes)
           THEN /\ encoder' = << DispatchCmd("sums", dispatch_groups),
                                 CopyCmd(bytes) >>
                /\ pc' = "submit"
                /\ result' = result
                /\ Log("encode")
           ELSE /\ encoder' = encoder
                /\ pc' = "panicked"
                /\ result' = "panic: validation error"
                /\ Log("validation_error")
    /\ UNCHANGED << cfgVars, ret, num_groups, dispatch_groups, input_data,
                    device, bufVars, bound, queue, channels, data, readout,
                    sumVars, calls >>

\* Mutant of Submit: a wait for the submission added to it.
SubmitAndWait ==
    /\ pc = "submit"
    /\ queue' = queue \o encoder
    /\ encoder' = << >>
    /\ pc' = "poll1"
    /\ hist' = hist \o << "submit", "poll" >>
    /\ UNCHANGED << cfgVars, ret, result, num_groups, dispatch_groups,
                    input_data, device, bufVars, bound, channels, data,
                    readout, sumVars, calls >>

\* queue.submit(Some(encoder.finish()))
Submit ==
    /\ pc = "submit"
    /\ queue' = queue \o encoder
    /\ encoder' = << >>
    /\ pc' = "poll1"
    /\ Log("submit")
    /\ UNCHANGED << cfgVars, ret, result, num_groups, dispatch_groups,
                    input_data, device, bufVars, bound, channels, data,
                    readout, sumVars, calls >>

\* Mutant of Poll1: Maintain::Poll, which does not wait for the device.
Poll1NoWait ==
    /\ pc = "poll1"
    /\ pc' = "map_async"
    /\ Log("poll")
    /\ UNCHANGED << cfgVars, ret, result, num_groups, dispatch_groups,
                    input_data, device, bufVars, bound, encoder, queue,
                    channels, data, readout, sumVars, calls >>

\* device.poll(wgpu::Maintain::Wait): returns once the device has completed
\* everything submitted.
Poll1 ==
    /\ pc = "poll1"
    /\ queue = << >>
    /\ pc' = "map_async"
    /\ Log("poll")
    /\ UNCHANGED << cfgVars, ret, result, num_groups, dispatch_groups,
                    input_data, device, bufVars, bound, encoder, queue,
                    channels, data, readout, sumVars, calls >>

\* Mutant of MapAsync: the channel of the previous readback is used again.
MapAsyncReusesChannel ==
    /\ pc = "map_async"
    /\ channels' =
         IF channels = << >>
           THEN << NewChannel(IF staging.map = "unmapped"
                                THEN "queued" ELSE "rejected") >>
           ELSE [channels EXCEPT ![Len(channels)] =
                    [@ EXCEPT !.state = "armed",
                              !.requests = @ + 1,
                              !.req = IF staging.map = "unmapped"
                                        THEN "queued" ELSE "rejected"]]
    /\ staging' = [staging EXCEPT !.map = IF @ = "unmapped" THEN "pending" ELSE @]
    /\ pc' = "poll2"
    /\ Log("map_async")
    /\ UNCHANGED << cfgVars, ret, result, num_groups, dispatch_groups,
                    input_data, device, input_buffer, partials_buffer, bound,
                    encoder, queue, data, readout, sumVars, calls >>

\* let (sender, receiver) = oneshot_channel(); slice.map_async(Read, callback)
MapAsync ==
    /\ pc = "map_async"
    /\ IF staging.map = "unmapped"
         THEN /\ channels' = Append(channels, NewChannel("queued"))
              /\ staging' = [staging EXCEPT !.map = "pending"]
         ELSE /\ channels' = Append(channels, NewChannel("rejected"))
              /\ staging' = staging
    /\ pc' = "poll2"
    /\ Log("map_async")
    /\ UNCHANGED << cfgVars, ret, result, num_groups, dispatch_groups,
                    input_data, device, input_buffer, partials_buffer, bound,
                    encoder, queue, data, readout, sumVars, calls >>

\* The map callback: sender.send(v).ok(), or the callback dropped unsent.
Callback(outcome) ==
    /\ SetCur(IF outcome = "dropped"
                THEN [Cur EXCEPT !.state = "closed"]
                ELSE [Cur EXCEPT !.state = "sent",
                                 !.sends = @ + 1,
                                 !.value = IF outcome = "granted"
                                             THEN "ok" ELSE "err"])
    /\ staging' =
         [staging EXCEPT !.map =
             IF Cur.req # "queued" THEN @
             ELSE IF outcome = "granted" THEN "mapped"
             ELSE IF outcome = "denied" THEN "unmapped"
             ELSE @]

\* Mutant of Poll2: the second poll left out; the host goes on to wait.
Poll2Skipped ==
    /\ pc = "poll2"
    /\ pc' = "receive"
    /\ UNCHANGED << cfgVars, ret, result, num_groups, dispatch_groups,
                    input_data, device, bufVars, bound, encoder, queue,
                    channels, data, readout, sumVars, calls, hist >>

\* device.poll(wgpu::Maintain::Wait) after the map request: the device
\* answers the request and the callback runs inside the call.
Poll2 ==
    /\ pc = "poll2"
    /\ queue = << >>
    /\ \E outcome \in MapOutcomes(Cur.req) :
         /\ Callback(outcome)
         /\ hist' = hist \o << "poll", IF outcome = "dropped"
                                         THEN "callback_dropped"
                                         ELSE "callback" >>
    /\ pc' = "receive"
    /\ UNCHANGED << cfgVars, ret, result, num_groups, dispatch_groups,
                    input_data, device, input_buffer, partials_buffer, bound,
                    encoder, queue, data, readout, sumVars, calls >>

\* Mutant of Receive: the map result is not looked at (one `?` only).
ReceiveIgnoresDenial ==
    /\ pc = "receive"
    /\ Cur.state \in {"sent", "closed"}
    /\ IF Cur.state = "closed"
         THEN /\ ret' = "map callback failed"
              /\ pc' = "ret_dispatch"
              /\ channels' = channels
         ELSE /\ SetCur([Cur EXCEPT !.recvs = @ + 1])
              /\ pc' = "get_mapped_range"
              /\ ret' = ret
    /\ Log("receive")
    /\ UNCHANGED << cfgVars, result, num_groups, dispatch_groups, input_data,
                    device, bufVars, bound, encoder, queue, data, readout,
                    sumVars, calls >>

\* receiver.receive().await.ok_or("map callback failed")??
Receive ==
    /\ pc = "receive"
    /\ Cur.state \in {"sent", "closed"}
    /\ IF Cur.state = "closed"
         THEN /\ ret' = "map callback failed"
              /\ pc' = "ret_dispatch"
              /\ channels' = channels
         ELSE /\ SetCur([Cur EXCEPT !.recvs = @ + 1])
              /\ IF Cur.value = "ok"
                   THEN pc' = "get_mapped_range" /\ ret' = ret
                   ELSE pc' = "ret_dispatch" /\ ret' = "BufferAsyncError"
    /\ Log("receive")
    /\ UNCHANGED << cfgVars, result, num_groups, dispatch_groups, input_data,
                    device, bufVars, bound, encoder, queue, data, readout,
                    sumVars, calls >>

\* let data = slice.get_mapped_range();  (panics unless the buffer is mapped)
GetMappedRange ==
    /\ pc = "get_mapped_range"
    /\ IF staging.map = "mapped"
         THEN /\ data' = TRUE
              /\ pc' = "to_vec"
              /\ result' = result
              /\ Log("get_mapped_range")
         ELSE /\ data' = data
              /\ pc' = "panicked"
              /\ result' = "panic: buffer is not mapped"
              /\ Log("not_mapped")
    /\ UNCHANGED << cfgVars, ret, num_groups, dispatch_groups, input_data,
                    device, bufVars, bound, encoder, queue, channels, readout,
                    sumVars, calls >>

\* Mutant of ToVec: the slice taken one element late.
ToVecOffByOne ==
    /\ pc = "to_vec"
    /\ data
    /\ readout' = [kind |-> "owned",
                   vals |-> [i \in 1..Len(staging.data) |->
                               IF i < Len(staging.data)
                                 THEN staging.data[i + 1] ELSE 0]]
    /\ pc' = "drop_data"
    /\ Log("read")
    /\ UNCHANGED << cfgVars, ret, result, num_groups, dispatch_groups,
                    input_data, device, bufVars, bound, encoder, queue,
                    channels, data, sumVars, calls >>

\* let partials: Vec<u32> = cast_slice(&data).to_vec();
ToVec ==
    /\ pc = "to_vec"
    /\ data
    /\ readout' = [kind |-> "owned", vals |-> staging.data]
    /\ pc' = "drop_data"
    /\ Log("read")
    /\ UNCHANGED << cfgVars, ret, result, num_groups, dispatch_groups,
                    input_data, device, bufVars, bound, encoder, queue,
                    channels, data, sumVars, calls >>

\* Mutant of DropData: the view is not dropped before the unmap.
DropDataForgotten ==
    /\ pc = "drop_data"
    /\ data' = data
    /\ pc' = "unmap"
    /\ Log("drop_data")
    /\ UNCHANGED << cfgVars, ret, result, num_groups, dispatch_groups,
                    input_data, device, bufVars, bound, encoder, queue,
                    channels, readout, sumVars, calls >>

\* drop(data);
DropData ==
    /\ pc = "drop_data"
    /\ data' = FALSE
    /\ pc' = "unmap"
    /\ Log("drop_data")
    /\ UNCHANGED << cfgVars, ret, result, num_groups, dispatch_groups,
                    input_data, device, bufVars, bound, encoder, queue,
                    channels, readout, sumVars, calls >>

\* Mutant of Unmap: the unmap left out.
UnmapForgotten ==
    /\ pc = "unmap"
    /\ staging' = staging
    /\ ret' = "ok"
    /\ pc' = "ret_dispatch"
    /\ Log("unmap")
    /\ UNCHANGED << cfgVars, result, num_groups, dispatch_groups, input_data,
                    device, input_buffer, partials_buffer, bound, encoder,
                    queue, channels, data, readout, sumVars, calls >>

\* staging.unmap(); Ok((partials, gpu_elapsed, full_elapsed))
Unmap ==
    /\ pc = "unmap"
    /\ staging' = [staging EXCEPT !.map = "unmapped"]
    /\ ret' = "ok"
    /\ pc' = "ret_dispatch"
    /\ Log("unmap")
    /\ UNCHANGED << cfgVars, result, num_groups, dispatch_groups, input_data,
                    device, input_buffer, partials_buffer, bound, encoder,
                    queue, channels, data, readout, sumVars, calls >>

\* Mutant of RunAfterDispatch: the error replaced by one of run's own.
RunAfterDispatchWrapsError ==
    /\ pc = "ret_dispatch"
    /\ caller = "run"
    /\ IF ret = "ok"
         THEN /\ pc' = "reduce"
              /\ UNCHANGED << result, bufVars >>
              /\ Log("return_partials")
         ELSE /\ pc' = "done"
              /\ result' = "readback failed"
              /\ DropResources
              /\ Log("return_err")
    /\ UNCHANGED << cfgVars, ret, num_groups, dispatch_groups, input_data,
                    device, bound, encoder, queue, channels, data, readout,
                    sumVars, calls >>

\* run: let (partials, ..) = dispatch_and_read_partials(..).await?;
RunAfterDispatch ==
    /\ pc = "ret_dispatch"
    /\ caller = "run"
    /\ IF ret = "ok"
         THEN /\ pc' = "reduce"
              /\ UNCHANGED << result, bufVars >>
              /\ Log("return_partials")
         ELSE /\ pc' = "done"
              /\ result' = ret
              /\ DropResources
              /\ Log("return_err")
    /\ UNCHANGED << cfgVars, ret, num_groups, dispatch_groups, input_data,
                    device, bound, encoder, queue, channels, data, readout,
                    sumVars, calls >>

\* Mutant of ReduceAndReport: a total that does not match is an error.
ReduceAndReportFailsOnMismatch ==
    /\ pc = "reduce"
    /\ gpu_total' = SumPartials(readout.vals)
    /\ expected' = ExpectedTotal(n)
    /\ result' = IF SumPartials(readout.vals) = ExpectedTotal(n)
                   THEN "ok" ELSE "total mismatch"
    /\ pc' = "done"
    /\ DropResources
    /\ Log("report")
    /\ UNCHANGED << cfgVars, ret, num_groups, dispatch_groups, input_data,
                    device, bound, encoder, queue, channels, data, readout,
                    mismatches, calls >>

\* run: gpu_total, expected, the report, Ok(())
ReduceAndReport ==
    /\ pc = "reduce"
    /\ gpu_total' = SumPartials(readout.vals)
    /\ expected' = ExpectedTotal(n)
    /\ result' = "ok"
    /\ pc' = "done"
    /\ DropResources
    /\ Log("report")
    /\ UNCHANGED << cfgVars, ret, num_groups, dispatch_groups, input_data,
                    device, bound, encoder, queue, channels, data, readout,
                    mismatches, calls >>

\* ------------------------------------------------ introduction::run
\* instance.request_adapter(&Default::default()).await.ok_or(..)?
IntroRequestAdapter ==
    /\ pc = "i_adapter"
    /\ \E found \in BOOLEAN :
         IF found
           THEN pc' = "i_device" /\ result' = result
           ELSE pc' = "done" /\ result' = "No suitable adapter found"
    /\ Log("request_adapter")
    /\ UNCHANGED << cfgVars, ret, num_groups, dispatch_groups, input_data,
                    device, bufVars, bound, encoder, queue, channels, data,
                    readout, sumVars, calls >>

\* adapter.request_device(&Default::default(), None).await?
IntroRequestDevice ==
    /\ pc = "i_device"
    /\ \E granted \in BOOLEAN :
         IF granted
           THEN device' = "ready" /\ pc' = "i_pipeline" /\ result' = result
           ELSE device' = device /\ pc' = "done"
                /\ result' = "RequestDeviceError"
    /\ Log("request_device")
    /\ UNCHANGED << cfgVars, ret, num_groups, dispatch_groups, input_data,
                    bufVars, bound, encoder, queue, channels, data, readout,
                    sumVars, calls >>

\* create_shader_module(introduction.wgsl); create_compute_pipeline(..)
IntroCreatePipeline ==
    /\ pc = "i_pipeline"
    /\ pc' = "i_buffers"
    /\ Log("create_pipeline")
    /\ UNCHANGED << cfgVars, ret, result, num_groups, dispatch_groups,
                    input_data, device, bufVars, bound, encoder, queue,
                    channels, data, readout, sumVars, calls >>

\* input_data = (0..n).collect(); element_count; byte_size; the three buffers
IntroCreateBuffers ==
    /\ pc = "i_buffers"
    /\ LET values == [i \in 1..n |-> AsU32(i - 1)]
           byte_size == n * size_of_u32
       IN /\ input_data' = values
          /\ input_buffer' = LiveBuffer(byte_size, values)
          /\ partials_buffer' = LiveBuffer(byte_size, Zeros(n))
          /\ staging' = [state |-> "live", size |-> byte_size,
                         data |-> Zeros(n), map |-> "unmapped"]
    /\ pc' = "i_bind_group"
    /\ Log("create_buffers")
    /\ UNCHANGED << cfgVars, ret, result, num_groups, dispatch_groups, device,
                    bound, encoder, queue, channels, data, readout, sumVars,
                    calls >>

\* device.create_bind_group(layout: pipeline.get_bind_group_layout(0), ..)
IntroCreateBindGroup ==
    /\ pc = "i_bind_group"
    /\ bound' = TRUE
    /\ pc' = "i_encode"
    /\ Log("create_bind_group")
    /\ UNCHANGED << cfgVars, ret, result, num_groups, dispatch_groups,
                    input_data, device, bufVars, encoder, queue, channels,
                    data, readout, sumVars, calls >>

\* Mutant of NumDispatches: the division rounds down.
NumDispatchesFloor(element_count) ==
    AsU32(element_count) \div 64

\* num_dispatches = ((element_count as u32) + 63) / 64
NumDispatches(element_count) ==
    AsU32(AsU32(element_count) + 63) \div 64

\* encoder: dispatch_workgroups(num_dispatches, 1, 1), then
\* copy_buffer_to_buffer(&output_buffer, 0, &temp_buffer, 0, byte_size)
IntroEncode ==
    /\ pc = "i_encode"
    /\ LET element_count == Len(input_data)
           byte_size == element_count * size_of_u32
       IN /\ dispatch_groups' = NumDispatches(element_count)
          /\ encoder' = << DispatchCmd("intro", NumDispatches(element_count)),
                           CopyCmd(byte_size) >>
    /\ calls' = calls + 1
    /\ pc' = "i_submit"
    /\ Log("encode")
    /\ UNCHANGED << cfgVars, ret, result, num_groups, input_data, device,
                    bufVars, bound, queue, channels, data, readout, sumVars >>

\* Mutant of IntroSubmit: a wait for the submission added to it.
IntroSubmitAndWait ==
    /\ pc = "i_submit"
    /\ queue' = queue \o encoder
    /\ encoder' = << >>
    /\ pc' = "i_poll1"
    /\ hist' = hist \o << "submit", "poll" >>
    /\ UNCHANGED << cfgVars, ret, result, num_groups, dispatch_groups,
                    input_data, device, bufVars, bound, channels, data,
                    readout, sumVars, calls >>

\* queue.submit(Some(encoder.finish()))
IntroSubmit ==
    /\ pc = "i_submit"
    /\ queue' = queue \o encoder
    /\ encoder' = << >>
    /\ pc' = "i_poll1"
    /\ Log("submit")
    /\ UNCHANGED << cfgVars, ret, result, num_groups, dispatch_groups,
                    input_data, device, bufVars, bound, channels, data,
                    readout, sumVars, calls >>

\* device.poll(wgpu::Maintain::Wait)
IntroPoll1 ==
    /\ pc = "i_poll1"
    /\ queue = << >>
    /\ pc' = "i_map_async"
    /\ Log("poll")
    /\ UNCHANGED << cfgVars, ret, result, num_groups, dispatch_groups,
                    input_data, device, bufVars, bound, encoder, queue,
                    channels, data, readout, sumVars, calls >>

\* let (sender, receiver) = oneshot_channel(); slice.map_async(Read, callback)
IntroMapAsync ==
    /\ pc = "i_map_async"
    /\ IF staging.map = "unmapped"
         THEN /\ channels' = Append(channels, NewChannel("queued"))
              /\ staging' = [staging EXCEPT !.map = "pending"]
         ELSE /\ channels' = Append(channels, NewChannel("rejected"))
              /\ staging' = staging
    /\ pc' = "i_poll2"
    /\ Log("map_async")
    /\ UNCHANGED << cfgVars, ret, result, num_groups, dispatch_groups,
                    input_data, device, input_buffer, partials_buffer, bound,
                    encoder, queue, data, readout, sumVars, calls >>

\* Mutant of IntroPoll2: the second poll left out; the host goes on to wait.
IntroPoll2Skipped ==
    /\ pc = "i_poll2"
    /\ pc' = "i_receive"
    /\ UNCHANGED << cfgVars, ret, result, num_groups, dispatch_groups,
                    input_data, device, bufVars, bound, encoder, queue,
                    channels, data, readout, sumVars, calls, hist >>

\* device.poll(wgpu::Maintain::Wait): "Ensure the device processes the
\* mapping callback"
IntroPoll2 ==
    /\ pc = "i_poll2"
    /\ queue = << >>
    /\ \E outcome \in MapOutcomes(Cur.req) :
         /\ Callback(outcome)
         /\ hist' = hist \o << "poll", IF outcome = "dropped"
                                         THEN "callback_dropped"
                                         ELSE "callback" >>
    /\ pc' = "i_receive"
    /\ UNCHANGED << cfgVars, ret, result, num_groups, dispatch_groups,
                    input_data, device, input_buffer, partials_buffer, bound,
                    encoder, queue, data, readout, sumVars, calls >>

\* receiver.receive().await.ok_or("Failed to get mapping result")?;
\* if let Err(e) = map_result { return Err(format!("buffer map error: ..")) }
IntroReceive ==
    /\ pc = "i_receive"
    /\ Cur.state \in {"sent", "closed"}
    /\ IF Cur.state = "closed"
         THEN /\ result' = "Failed to get mapping result"
              /\ pc' = "done"
              /\ channels' = channels
              /\ DropResources
         ELSE /\ SetCur([Cur EXCEPT !.recvs = @ + 1])
              /\ IF Cur.value = "ok"
                   THEN /\ pc' = "i_get_mapped_range"
                        /\ UNCHANGED << result, bufVars >>
                   ELSE /\ pc' = "done"
                        /\ result' = "buffer map error: BufferAsyncError"
                        /\ DropResources
    /\ Log("receive")
    /\ UNCHANGED << cfgVars, ret, num_groups, dispatch_groups, input_data,
                    device, bound, encoder, queue, data, readout, sumVars,
                    calls >>

\* let data = slice.get_mapped_range();
IntroGetMappedRange ==
    /\ pc = "i_get_mapped_range"
    /\ IF staging.map = "mapped"
         THEN /\ data' = TRUE
              /\ pc' = "i_read"
              /\ result' = result
              /\ Log("get_mapped_range")
         ELSE /\ data' = data
              /\ pc' = "panicked"
              /\ result' = "panic: buffer is not mapped"
              /\ Log("not_mapped")
    /\ UNCHANGED << cfgVars, ret, num_groups, dispatch_groups, input_data,
                    device, bufVars, bound, encoder, queue, channels, readout,
                    sumVars, calls >>

\* output_u32.iter().zip(input_data.iter()).filter(|(o, i)| o != i).count()
CountMismatches(out, in) ==
    Cardinality({ i \in 1..(IF Len(out) < Len(in) THEN Len(out) ELSE Len(in)) :
                    out[i] # in[i] })

\* let output_u32: &[u32] = cast_slice(&data); the print; the mismatch count
IntroReadMapped ==
    /\ pc = "i_read"
    /\ data
    /\ readout' = [kind |-> "borrowed", vals |-> staging.data]
    /\ mismatches' = CountMismatches(staging.data, input_data)
    /\ pc' = "i_drop_data"
    /\ Log("read")
    /\ UNCHANGED << cfgVars, ret, result, num_groups, dispatch_groups,
                    input_data, device, bufVars, bound, encoder, queue,
                    channels, data, gpu_total, expected, calls >>

\* drop(data);  (output_u32 borrows data: it ends here)
IntroDropData ==
    /\ pc = "i_drop_data"
    /\ data' = FALSE
    /\ readout' = NoReadout
    /\ pc' = "i_unmap"
    /\ Log("drop_data")
    /\ UNCHANGED << cfgVars, ret, result, num_groups, dispatch_groups,
                    input_data, device, bufVars, bound, encoder, queue,
                    channels, sumVars, calls >>

\* temp_buffer.unmap(); log::info!("Success!"); Ok(())
IntroUnmap ==
    /\ pc = "i_unmap"
    /\ staging' = Dropped([staging EXCEPT !.map = "unmapped"])
    /\ input_buffer' = Dropped(input_buffer)
    /\ partials_buffer' = Dropped(partials_buffer)
    /\ result' = "ok"
    /\ pc' = "done"
    /\ Log("unmap")
    /\ UNCHANGED << cfgVars, ret, num_groups, dispatch_groups, input_data,
                    device, bound, encoder, queue, channels, data, readout,
                    sumVars, calls >>

\* --------------------------------- a caller of the public functions
\* The functions of parallel_sums_64.rs are pub: a caller other than run
\* acquires the device, creates the buffers for num_groups workgroups, and
\* calls dispatch_and_read_partials on them, with any num_groups argument,
\* up to MaxCalls times.
ApiAfterInit ==
    /\ pc = "ret_init_wgpu"
    /\ caller = "api"
    /\ IF ret = "ok"
         THEN /\ num_groups' = n \div elements_per_group
              /\ input_data' = [i \in 1..n |-> AsU32(i)]
              /\ pc' = "create_buffers"
              /\ result' = result
              /\ Log("print_adapter")
         ELSE /\ pc' = "done"
              /\ result' = ret
              /\ UNCHANGED << num_groups, input_data >>
              /\ Log("return_err")
    /\ UNCHANGED << cfgVars, ret, dispatch_groups, device, bufVars, bound,
                    encoder, queue, channels, data, readout, sumVars, calls >>

ApiCallDispatch ==
    /\ pc = "call_dispatch"
    /\ caller = "api"
    /\ calls < MaxCalls
    /\ \E g \in 1..MaxGroups : dispatch_groups' = g
    /\ calls' = calls + 1
    /\ pc' = "encode"
    /\ Log("call_dispatch")
    /\ UNCHANGED << cfgVars, ret, result, num_groups, input_data, device,
                    bufVars, bound, encoder, queue, channels, data, readout,
                    sumVars >>

ApiAfterDispatch ==
    /\ pc = "ret_dispatch"
    /\ caller = "api"
    /\ pc' = "call_dispatch"
    /\ Log(IF ret = "ok" THEN "return_partials" ELSE "return_err")
    /\ UNCHANGED << cfgVars, ret, result, num_groups, dispatch_groups,
                    input_data, device, bufVars, bound, encoder, queue,
                    channels, data, readout, sumVars, calls >>

ApiFinish ==
    /\ pc = "call_dispatch"
    /\ caller = "api"
    /\ calls = MaxCalls
    /\ result' = ret
    /\ pc' = "done"
    /\ DropResources
    /\ Log("finish")
    /\ UNCHANGED << cfgVars, ret, num_groups, dispatch_groups, input_data,
                    device, bound, encoder, queue, channels, data, readout,
                    sumVars, calls >>

\* ------------------------------------------------------ specification
Init ==
    /\ prog \in {"sums", "intro"}
    /\ caller = "run"
    /\ n \in NValues
    /\ width = WordBits
    /\ pc = (IF prog = "sums" THEN "run_start" ELSE "i_adapter")
    /\ ret = "none"
    /\ result = "running"
    /\ num_groups = 0
    /\ dispatch_groups = 0
    /\ input_data = << >>
    /\ device = "none"
    /\ input_buffer = NoBuffer
    /\ partials_buffer = NoBuffer
    /\ staging = NoStaging
    /\ bound = FALSE
    /\ encoder = << >>
    /\ queue = << >>
    /\ channels = << >>
    /\ data = FALSE
    /\ readout = NoReadout
    /\ gpu_total = 0
    /\ expected = 0
    /\ mismatches = 0
    /\ calls = 0
    /\ hist = << >>

Next ==
    \/ RunPrecondition
    \/ RequestAdapter
    \/ RequestDevice
    \/ RunAfterInit
    \/ CreateBuffers
    \/ CreatePipelineAndBindgroup
    \/ RunCallDispatch
    \/ Encode
    \/ Submit
    \/ Poll1
    \/ MapAsync
    \/ Poll2
    \/ Receive
    \/ GetMappedRange
    \/ ToVec
    \/ DropData
    \/ Unmap
    \/ RunAfterDispatch
    \/ ReduceAndReport
    \/ IntroRequestAdapter
    \/ IntroRequestDevice
    \/ IntroCreatePipeline
    \/ IntroCreateBuffers
    \/ IntroCreateBindGroup
    \/ IntroEncode
    \/ IntroSubmit
    \/ IntroPoll1
    \/ IntroMapAsync
    \/ IntroPoll2
    \/ IntroReceive
    \/ IntroGetMappedRange
    \/ IntroReadMapped
    \/ IntroDropData
    \/ IntroUnmap
    \/ DeviceExecute
    \/ DeviceLost

\* The program: either run, as main calls it.
Spec == Init /\ [][Next]_vars

\* A step of the host control path: any step but the device's.
HostStep ==
    \/ RunPrecondition
    \/ RequestAdapter
    \/ RequestDevice
    \/ RunAfterInit
    \/ CreateBuffers
    \/ CreatePipelineAndBindgroup
    \/ RunCallDispatch
    \/ Encode
    \/ Submit
    \/ Poll1
    \/ MapAsync
    \/ Poll2
    \/ Receive
    \/ GetMappedRange
    \/ ToVec
    \/ DropData
    \/ Unmap
    \/ RunAfterDispatch
    \/ ReduceAndReport
    \/ IntroRequestAdapter
    \/ IntroRequestDevice
    \/ IntroCreatePipeline
    \/ IntroCreateBuffers
    \/ IntroCreateBindGroup
    \/ IntroEncode
    \/ IntroSubmit
    \/ IntroPoll1
    \/ IntroMapAsync
    \/ IntroPoll2
    \/ IntroReceive
    \/ IntroGetMappedRange
    \/ IntroReadMapped
    \/ IntroDropData
    \/ IntroUnmap

\* The program under a fair schedule: the host thread (block_on drives run
\* to completion) takes its next step whenever it has one, and a device
\* that is not lost completes what is submitted to it.
FairSpec == Spec /\ WF_vars(HostStep) /\ WF_vars(DeviceExecute)

\* The public functions under a caller other than run.
ApiInit ==
    /\ prog = "sums"
    /\ caller = "api"
    /\ n \in { elements_per_group * g : g \in 1..MaxGroups }
    /\ width = WordBits
    /\ pc = "init_adapter"
    /\ ret = "none"
    /\ result = "running"
    /\ num_groups = 0
    /\ dispatch_groups = 0
    /\ input_data = << >>
    /\ device = "none"
    /\ input_buffer = NoBuffer
    /\ partials_buffer = NoBuffer
    /\ staging = NoStaging
    /\ bound = FALSE
    /\ encoder = << >>
    /\ queue = << >>
    /\ channels = << >>
    /\ data = FALSE
    /\ readout = NoReadout
    /\ gpu_total = 0
    /\ expected = 0
    /\ mismatches = 0
    /\ calls = 0
    /\ hist = << >>

AllNext ==
    \/ Next
    \/ ApiAfterInit
    \/ ApiCallDispatch
    \/ ApiAfterDispatch
    \/ ApiFinish

\* Both runs of the program, and the public functions under any caller.
AllSpec == (Init \/ ApiInit) /\ [][AllNext]_vars

\* The two runs at the element counts the source gives them.
ScenarioInit ==
    /\ \/ prog = "sums" /\ n = SumsN /\ pc = "run_start"
       \/ prog = "intro" /\ n = IntroN /\ pc = "i_adapter"
    /\ caller = "run"
    /\ width = ScenarioBits
    /\ ret = "none"
    /\ result = "running"
    /\ num_groups = 0
    /\ dispatch_groups = 0
    /\ input_data = << >>
    /\ device = "none"
    /\ input_buffer = NoBuffer
    /\ partials_buffer = NoBuffer
    /\ staging = NoStaging
    /\ bound = FALSE
    /\ encoder = << >>
    /\ queue = << >>
    /\ channels = << >>
    /\ data = FALSE
    /\ readout = NoReadout
    /\ gpu_total = 0
    /\ expected = 0
    /\ mismatches = 0
    /\ calls = 0
    /\ hist = << >>

ScenarioSpec == ScenarioInit /\ [][Next]_vars

\* The host reducer of run (gpu_total, expected) on its own: every element
\* count a word holds, and as many partial values as that count has whole
\* workgroups, each the smallest or the largest value of a word.
ReducerInit ==
    /\ prog = "sums"
    /\ caller = "run"
    /\ width = ReducerBits
    /\ n \in 0..(2 ^ ReducerBits - 1)
    /\ pc = "reduce"
    /\ ret = "ok"
    /\ result = "running"
    /\ num_groups = n \div elements_per_group
    /\ dispatch_groups = n \div elements_per_group
    /\ input_data = << >>
    /\ device = "ready"
    /\ input_buffer = NoBuffer
    /\ partials_buffer = NoBuffer
    /\ staging = NoStaging
    /\ bound = FALSE
    /\ encoder = << >>
    /\ queue = << >>
    /\ channels = << >>
    /\ data = FALSE
    /\ \E vals \in [1..(n \div elements_per_group) -> {0, 2 ^ ReducerBits - 1}] :
         readout = [kind |-> "owned", vals |-> vals]
    /\ gpu_total = 0
    /\ expected = 0
    /\ mismatches = 0
    /\ calls = 1
    /\ hist = << >>

ReducerNext == ReduceAndReport

ReducerSpec == ReducerInit /\ [][ReducerNext]_vars


\* ------------------------------------------------------------ claims
Has(e) == \E i \in 1..Len(hist) : hist[i] = e

Count(e) == Cardinality({ i \in 1..Len(hist) : hist[i] = e })

IsPrefix(s, t) == Len(s) <= Len(t) /\ \A i \in 1..Len(s) : s[i] = t[i]

\* The reduction run returned Ok(()) after its report.
RunCompleted == prog = "sums" /\ caller = "run" /\ pc = "done" /\ result = "ok"

\* n*(n+1)/2 in unbounded arithmetic.
Triangle(m) == (m * (m + 1)) \div 2

\* The exact sum of the last workgroup's inputs m-63 .. m, the largest partial.
LastGroupSum(m) ==
    elements_per_group * m
        - (elements_per_group * (elements_per_group - 1)) \div 2

C2_MapOnlyAfterSubmittedWorkDone ==
    (staging.map \in {"pending", "mapped"} \/ pc \in {"map_async", "i_map_async"})
        => queue = << >> /\ encoder = << >>

C2_Witness ==
    staging.map = "pending" /\ Has("dev_copy") /\ device = "ready"

\* The readback handshake as the host and the callback step through it.
Handshake == {"submit", "poll", "map_async", "callback", "callback_dropped",
              "receive"}

InHandshake(e) == e \in Handshake

HandshakeSent ==
    << "submit", "poll", "map_async", "poll", "callback", "receive" >>

HandshakeDropped ==
    << "submit", "poll", "map_async", "poll", "callback_dropped", "receive" >>

\* C3: the callback runs only in the second poll, the one after the map
\* request; the host polls once after the submission and once after the
\* map request, and waits on the signal only after the second poll.
C3_CallbackOnlyInSecondPoll ==
    LET steps == SelectSeq(hist, InHandshake) IN
      /\ IsPrefix(steps, HandshakeSent) \/ IsPrefix(steps, HandshakeDropped)
      /\ pc \in {"receive", "i_receive"} =>
           /\ Len(steps) = 5
           /\ Cur.state \in {"sent", "closed"}
      /\ pc \in {"poll2", "i_poll2"} => Cur.state = "armed" /\ Cur.sends = 0
      /\ \A i \in 1..Len(channels) : channels[i].sends > 0 => Len(steps) >= 5

C3_Witness ==
    pc = "receive" /\ Cur.state = "sent" /\ Count("poll") = 2

\* What the host holds of the mapped bytes.
NothingRead == ~data /\ readout.kind = "none"

ReadbackFailed(sumsErr, introErr) ==
    /\ NothingRead
    /\ Count("map_async") = 1
    /\ Count("get_mapped_range") = 0
    /\ IF prog = "sums"
         THEN /\ ret = sumsErr
              /\ pc \in {"ret_dispatch", "done"}
              /\ pc = "done" => result = sumsErr
         ELSE pc = "done" /\ result = introErr

\* C4: the wait on the signal ends in one of three ways; the mapped view is
\* obtained only after a success, and after a signal that never fired or a
\* denial the readback fails with no view, no values and no second request.
C4_ThreeOutcomes ==
    /\ (data \/ readout.kind # "none" \/ Has("get_mapped_range")) =>
         Cur.value = "ok" /\ Cur.recvs = 1
    /\ Has("receive") =>
         \/ Cur.state = "closed" /\ Cur.recvs = 0
              /\ ReadbackFailed("map callback failed",
                                "Failed to get mapping result")
         \/ Cur.state = "sent" /\ Cur.value = "err" /\ Cur.recvs = 1
              /\ ReadbackFailed("BufferAsyncError",
                                "buffer map error: BufferAsyncError")
         \/ Cur.state = "sent" /\ Cur.value = "ok" /\ Cur.recvs = 1
              /\ ret \notin {"map callback failed", "BufferAsyncError"}
              /\ result \in {"running", "ok"}

C4_Witness ==
    /\ Has("receive")
    /\ Cur.value = "err"
    /\ pc = "done"
    /\ prog = "sums"

\* The host holds the mapped view only between get_mapped_range and
\* drop(data): never while anything is recorded or submitted, never on a
\* buffer that is destroyed, and never once the readback has returned.
ViewHeldOnlyWhileReading ==
    /\ data =>
         /\ pc \in {"to_vec", "drop_data", "i_read", "i_drop_data"}
         /\ staging.state = "live"
         /\ staging.map = "mapped"
         /\ queue = << >>
         /\ encoder = << >>
    /\ pc \in {"ret_dispatch", "call_dispatch", "encode", "submit", "reduce",
               "done"} =>
         ~data /\ staging.map # "mapped"
    /\ staging.state = "destroyed" => ~data
    /\ readout.kind = "borrowed" => data

\* C5 as stated: after a successful map the host copies the mapped bytes
\* into host-owned storage and releases the view before the readback
\* returns; no view is held when staging is reused or destroyed and what is
\* returned does not alias the view.
C5_CopyThenRelease ==
    /\ ViewHeldOnlyWhileReading
    /\ Has("read") => readout.kind = "owned"

\* C5 amended: dispatch_and_read_partials copies the mapped bytes into a
\* host-owned Vec and returns that copy; introduction::run reads the mapped
\* bytes in place, through a borrow that ends with the view; both release
\* the view (drop, then unmap) before they return.
C5_ReadThenRelease ==
    /\ ViewHeldOnlyWhileReading
    /\ prog = "sums" =>
         /\ readout.kind \in {"none", "owned"}
         /\ Has("read") => readout.kind = "owned"
         /\ pc = "ret_dispatch" /\ ret = "ok" =>
              readout.vals = staging.data /\ staging.map = "unmapped"
    /\ prog = "intro" =>
         /\ readout.kind \in {"none", "borrowed"}
         /\ result = "ok" => readout.kind = "none" /\ Has("read")

C5_Witness ==
    /\ pc = "ret_dispatch"
    /\ ret = "ok"
    /\ readout.kind = "owned"
    /\ Len(readout.vals) = 2

\* Nothing of the device has been touched.
NoDeviceInteraction ==
    /\ device = "none"
    /\ input_buffer.state = "absent"
    /\ partials_buffer.state = "absent"
    /\ staging.state = "absent"
    /\ ~bound
    /\ encoder = << >>
    /\ queue = << >>
    /\ calls = 0
    /\ ~Has("request_adapter")

\* C6 as stated: a run whose n is not divisible by elements_per_group fails
\* at the precondition check, before the device is acquired and before any
\* resource is created or command submitted.
C6_RaggedRunFailsFirst ==
    n % elements_per_group # 0 =>
        /\ NoDeviceInteraction
        /\ pc # "done"

\* C6 amended: so does parallel_sums_64::run, whose assert! panics before
\* init_wgpu; introduction::run has no such check.
C6_RaggedReductionFailsFirst ==
    prog = "sums" /\ n % elements_per_group # 0 =>
        /\ NoDeviceInteraction
        /\ pc \in {"run_start", "panicked"}
        /\ pc = "panicked" => result = "panic: assertion failed"

C6_Witness ==
    prog = "sums" /\ n % elements_per_group # 0 /\ pc = "panicked"

\* Every command recorded or submitted and not yet completed.
Commands == encoder \o queue

\* C7: in the reduction run the partial buffer holds n / elements_per_group
\* elements (that many times the element size in bytes), the staging buffer
\* has the partial buffer's byte size, and as many workgroups are dispatched
\* as there are partial elements.
C7_BufferSizes ==
    prog = "sums" /\ caller = "run" /\ partials_buffer.state # "absent" =>
        /\ Len(partials_buffer.data) = n \div elements_per_group
        /\ partials_buffer.size = (n \div elements_per_group) * size_of_u32
        /\ staging.size = partials_buffer.size
        /\ Len(staging.data) = Len(partials_buffer.data)
        /\ calls > 0 => dispatch_groups = Len(partials_buffer.data)
        /\ \A i \in 1..Len(Commands) :
             Commands[i].op = "dispatch" =>
                 Commands[i].arg = Len(partials_buffer.data)

C7_Witness ==
    /\ prog = "sums"
    /\ Len(queue) = 2
    /\ Head(queue).op = "dispatch"
    /\ Head(queue).arg = 2

CopiesAreExact ==
    \A i \in 1..Len(Commands) :
        Commands[i].op = "copy" =>
            /\ Commands[i].arg = partials_buffer.size
            /\ Commands[i].arg = staging.size

\* C8 as stated: for every call of dispatch_and_read_partials the recorded
\* copy has exactly the partial buffer's byte length.
C8_CopyIsWholePartialBuffer ==
    CopiesAreExact

\* C8 amended: it has, for every call whose num_groups argument is the one
\* the buffers were created with.
C8_CopyIsWholeWhenGroupsAgree ==
    dispatch_groups = num_groups \/ prog = "intro" => CopiesAreExact

C8_Witness ==
    /\ caller = "api"
    /\ calls = 2
    /\ dispatch_groups = num_groups
    /\ num_groups = 2
    /\ Len(queue) = 1
    /\ Head(queue).op = "copy"

ChannelIsOneShot(c) ==
    /\ c.requests = 1
    /\ c.sends <= 1
    /\ c.recvs <= c.sends
    /\ c.state = "armed" => c.sends = 0 /\ c.recvs = 0
    /\ c.state = "closed" => c.sends = 0 /\ c.recvs = 0
    /\ c.state = "sent" => c.sends = 1

\* C9: every readback creates a channel of its own; a channel serves one map
\* request, is sent on at most once and received from at most once, and
\* once it has fired or closed it is never armed again.
C9_OneShotSignal ==
    /\ [](/\ Len(channels) = Count("map_async")
          /\ \A i \in 1..Len(channels) :
               /\ ChannelIsOneShot(channels[i])
               /\ i < Len(channels) => channels[i].state # "armed")
    /\ [][\A i \in 1..Len(channels) :
            /\ i <= Len(channels')
            /\ channels'[i].requests = channels[i].requests
            /\ channels[i].state # "armed" =>
                 /\ channels'[i].state = channels[i].state
                 /\ channels'[i].sends = channels[i].sends
                 /\ channels'[i].value = channels[i].value]_vars

C9_Witness ==
    /\ Len(channels) = 2
    /\ channels[1].recvs = 1
    /\ channels[2].recvs = 1

\* The accesses to the three buffers: the host's write of the input at
\* creation, the kernel (reads input, writes partials), the copy (reads
\* partials, writes staging), the host's read of staging.
IsBufferPhase(e) == e \in {"create_buffers", "dev_dispatch", "dev_copy", "read"}

PhaseOrder == << "create_buffers", "dev_dispatch", "dev_copy", "read" >>

Touches(cmd) ==
    IF cmd.op = "dispatch" THEN {"input", "partials"} ELSE {"partials", "staging"}

DeviceUses(buf) == \E i \in 1..Len(queue) : buf \in Touches(queue[i])

HostUses(buf) ==
    \/ buf = "staging" /\ data
    \/ buf = "input" /\ pc \in {"create_buffers", "i_buffers"}

\* C10: per run each buffer is written once and then read once, in the order
\* host writes input, kernel, copy, host reads staging; the host and the
\* device never use one buffer at the same time, and the input buffer keeps
\* what it was created with.
C10_OneWriterThenOneReader ==
    /\ IsPrefix(SelectSeq(hist, IsBufferPhase), PhaseOrder)
    /\ result = "ok" => SelectSeq(hist, IsBufferPhase) = PhaseOrder
    /\ \A buf \in {"input", "partials", "staging"} :
         ~(HostUses(buf) /\ DeviceUses(buf))
    /\ input_buffer.state # "absent" => input_buffer.data = input_data

C10_Witness ==
    prog = "sums" /\ result = "ok" /\ Len(readout.vals) = 2

\* The host's positions in the readback of lines 187-204 (and of
\* introduction.rs 98-126): from the map request to the unmap.
ReadbackPcs ==
    {"map_async", "poll2", "receive", "get_mapped_range", "to_vec",
     "drop_data", "unmap", "i_map_async", "i_poll2", "i_receive",
     "i_get_mapped_range", "i_read", "i_drop_data", "i_unmap"}

FailedRun == pc = "done" /\ result # "ok"

\* The error the failing component produced, from where the run failed:
\* no adapter, the device request, the signal's sender dropped, the map
\* denied.
ProducedError ==
    IF ~Has("request_device")
      THEN (IF prog = "sums" THEN "No suitable GPU adapter found"
                             ELSE "No suitable adapter found")
    ELSE IF device = "none" THEN "RequestDeviceError"
    ELSE IF Cur.state = "closed"
      THEN (IF prog = "sums" THEN "map callback failed"
                             ELSE "Failed to get mapping result")
    ELSE "BufferAsyncError"

\* The steps of the host, as against those of the device.
IsHostStep(e) ==
    e \notin {"dev_dispatch", "dev_copy", "dev_lost", "callback",
              "callback_dropped"}

\* A failed run issued nothing after the failure and tried nothing twice.
NothingAfterFailure ==
    /\ queue = << >>
    /\ encoder = << >>
    /\ ~data
    /\ Count("request_adapter") = 1
    /\ Count("request_device") <= 1
    /\ Count("submit") <= 1
    /\ Count("map_async") <= 1
    /\ LET steps == SelectSeq(hist, IsHostStep) IN
         /\ steps[Len(steps)] \in {"request_adapter", "request_device",
                                   "receive", "return_err"}
         /\ steps[Len(steps)] = "return_err" =>
              steps[Len(steps) - 1] \in {"request_adapter", "request_device",
                                         "receive"}

\* C12 as stated: every failure ends the run with nothing issued after it,
\* and the error that leaves run is the error the failing component
\* produced.
C12_ErrorsLeaveUnchanged ==
    FailedRun => NothingAfterFailure /\ result = ProducedError

\* C12 amended: every failure ends the run with nothing issued after it;
\* parallel_sums_64::run returns the error the failing component produced,
\* and introduction::run does so except for a denied map, which it replaces
\* by a new message that holds the cause's Debug text.
C12_ErrorsLeaveUnchangedButIntroDenial ==
    /\ [](FailedRun =>
            /\ NothingAfterFailure
            /\ prog = "sums" => result = ProducedError
            /\ prog = "intro" =>
                 result = IF ProducedError = "BufferAsyncError"
                            THEN "buffer map error: BufferAsyncError"
                            ELSE ProducedError)
    /\ [][pc # "done"]_vars

C12_Witness ==
    /\ FailedRun
    /\ prog = "sums"
    /\ result = "map callback failed"
    /\ device = "lost"

\* The steps at which the host control path waits: each `.await` of a
\* future (request_adapter, request_device, receiver.receive) and each
\* blocking device.poll(wgpu::Maintain::Wait).
IsWait(e) == e \in {"request_adapter", "request_device", "poll", "receive"}

Waits == SelectSeq(hist, IsWait)

TwoWaits == << "poll", "receive" >>

FiveWaits ==
    << "request_adapter", "request_device", "poll", "poll", "receive" >>

\* C13 as stated: a run waits at exactly two points, for the completion of
\* the submitted commands and for the map signal, and at no other point.
C13_TwoSuspensionPoints ==
    /\ IsPrefix(Waits, TwoWaits)
    /\ result = "ok" => Waits = TwoWaits

\* C13 amended: a run waits at five points, in this order: the two awaits of
\* the acquisition (adapter, device), the blocking poll after the
\* submission, the blocking poll after the map request, and the await of
\* the signal; of these only the first poll finds device work unfinished,
\* and the signal has fired or closed before it is awaited.
C13_FiveSuspensionPoints ==
    /\ IsPrefix(Waits, FiveWaits)
    /\ result = "ok" => Waits = FiveWaits
    /\ queue # << >> => pc \in {"poll1", "i_poll1"}
    /\ pc \in {"receive", "i_receive"} => Cur.state \in {"sent", "closed"}

C13_Witness ==
    /\ prog = "sums"
    /\ pc = "done"
    /\ result = "ok"
    /\ Waits = FiveWaits
    /\ device = "ready"

\* a + (a+1) + .. + b in unbounded arithmetic.
SumRange(a, b) == ((a + b) * (b - a + 1)) \div 2

\* C14: with n = 16384 and 64 elements per workgroup the run uses 256
\* workgroups, expects the total 134225920, reads 2080 as the first partial
\* and the sum of inputs 64k+1..64k+64 as the k-th, and reports a total equal
\* to the expected one.
C14_Scenario16384 ==
    prog = "sums" /\ n = 16384 =>
        /\ pc # "panicked"
        /\ pc # "run_start" => num_groups = 256
        /\ partials_buffer.state # "absent" =>
             Len(partials_buffer.data) = 256 /\ Len(staging.data) = 256
        /\ calls > 0 => dispatch_groups = 256
        /\ readout.kind = "owned" =>
             /\ Len(readout.vals) = 256
             /\ readout.vals[1] = 2080
             /\ \A k \in 0..255 :
                  readout.vals[k + 1] = SumRange(64 * k + 1, 64 * k + 64)
        /\ RunCompleted =>
             /\ expected = 134225920
             /\ gpu_total = expected
             /\ readout.kind = "owned"

C14_Witness ==
    RunCompleted /\ n = 16384 /\ gpu_total = 134225920

\* C15: with n = 10000 the identity run creates buffers of exactly 10000
\* elements, dispatches 157 workgroups, and reads back an array equal to the
\* input element by element: no mismatch.
C15_Scenario10000 ==
    prog = "intro" /\ n = 10000 =>
        /\ partials_buffer.state # "absent" =>
             /\ Len(input_buffer.data) = 10000
             /\ Len(partials_buffer.data) = 10000
             /\ Len(staging.data) = 10000
             /\ staging.size = 40000
        /\ calls > 0 => dispatch_groups = 157
        /\ readout.kind = "borrowed" =>
             /\ Len(readout.vals) = 10000
             /\ \A i \in 1..10000 : readout.vals[i] = i - 1
             /\ readout.vals = input_data
        /\ Has("read") => mismatches = 0
        /\ result = "ok" => Has("read")

C15_Witness ==
    prog = "intro" /\ n = 10000 /\ result = "ok" /\ mismatches = 0

\* vals[lo] + .. + vals[hi] in unbounded arithmetic.
RECURSIVE SumExact(_, _, _)
SumExact(vals, lo, hi) ==
    IF lo > hi THEN 0
    ELSE IF lo = hi THEN vals[lo]
    ELSE LET mid == (lo + hi) \div 2 IN
           SumExact(vals, lo, mid) + SumExact(vals, mid + 1, hi)

\* C16: the host reducer does not wrap: for every element count of a word
\* and any partial values (one per whole workgroup, each a word), the
\* reported total is the exact sum of the partials and the expected value
\* is exactly n*(n+1)/2.
C16_ReducerNeverWraps ==
    Has("report") /\ readout.kind = "owned" =>
        /\ gpu_total = SumExact(readout.vals, 1, Len(readout.vals))
        /\ expected = Triangle(n)
        /\ Len(readout.vals) * elements_per_group <= 2 ^ width

C16_Witness ==
    /\ Has("report")
    /\ n = 2 ^ width - 1
    /\ width = ReducerBits
    /\ Len(readout.vals) > 1
    /\ \A k \in 1..Len(readout.vals) : readout.vals[k] = 2 ^ width - 1

\* The host is at the first poll with work submitted to a device that is
\* lost: the work is never completed.
Hung ==
    /\ device = "lost"
    /\ queue # << >>
    /\ pc \in {"poll1", "i_poll1"}

\* C17: under a fair schedule the run ends (the report, an error, or the
\* precondition's panic) unless the device is lost with work submitted and
\* not completed; in that case the host stays at the first poll forever:
\* nothing times the wait out or cancels it, and the run never reports.
C17_TerminatesUnlessDeviceHangs ==
    /\ <>(Terminal \/ Hung)
    /\ [](device = "lost" /\ queue # << >> => Hung)
    /\ [](Hung => [](Hung /\ result = "running"))
    /\ [][Hung => pc' = pc /\ queue' = queue /\ device' = device]_vars

C17_Witness ==
    /\ Hung
    /\ prog = "sums"
    /\ Len(queue) = 1
    /\ Has("dev_dispatch")

\* The step of the protocol a statement of either program belongs to.
ProtocolStep(e) ==
    CASE e \in {"assert", "assert_failed"} -> "precondition"
      [] e \in {"request_adapter", "request_device"} -> "acquire"
      [] e = "create_buffers" -> "buffers"
      [] e \in {"create_pipeline_and_bindgroup", "create_pipeline",
                "create_bind_group"} -> "bind"
      [] e = "encode" -> "dispatch, copy"
      [] e = "submit" -> "submit"
      [] e = "poll" -> "wait"
      [] e = "map_async" -> "map request"
      [] e = "receive" -> "signal receive"
      [] e \in {"get_mapped_range", "read"} -> "read"
      [] e \in {"drop_data", "unmap"} -> "release"
      [] OTHER -> "none"

IsProtocolStep(e) == ProtocolStep(e) # "none"

\* The protocol steps of the run so far.
ProtocolSteps ==
    LET taken == SelectSeq(hist, IsProtocolStep)
    IN [i \in 1..Len(taken) |-> ProtocolStep(taken[i])]

\* From the recording of the commands on, both programs go the same way.
ReadbackProtocol ==
    << "dispatch, copy", "submit", "wait", "map request", "wait",
       "signal receive", "read", "read", "release", "release" >>

\* parallel_sums_64::run: the order the claim gives.
SumsProtocol ==
    << "precondition", "acquire", "acquire", "buffers", "bind" >>
        \o ReadbackProtocol

\* introduction::run: no precondition; the pipeline before the buffers, the
\* bind group after them.
IntroProtocol ==
    << "acquire", "acquire", "bind", "buffers", "bind" >> \o ReadbackProtocol

SumsErrors ==
    {"No suitable GPU adapter found", "RequestDeviceError",
     "map callback failed", "BufferAsyncError"}

IntroErrors ==
    {"No suitable adapter found", "RequestDeviceError",
     "Failed to get mapping result", "buffer map error: BufferAsyncError"}

\* C18 as stated: for the same element count the two programs take the same
\* steps in the same order (that of the decomposed one), dispatch the same
\* number of workgroups and end in the same error outcomes.
C18_SameProtocol ==
    /\ IsPrefix(ProtocolSteps, SumsProtocol)
    /\ calls > 0 => dispatch_groups = n \div elements_per_group
    /\ FailedRun => result \in SumsErrors

\* C18 amended: the two programs share the protocol from the recording of
\* the commands to the release, and differ before it and around it:
\* parallel_sums_64::run checks the precondition, creates the buffers and
\* then binds, dispatches n/64 workgroups of the reduction kernel over n/64
\* partial values and returns the component's errors; introduction::run has
\* no precondition, creates the pipeline before the buffers, dispatches
\* ceil(n/64) workgroups of the identity kernel over n output elements and
\* returns errors of its own wording.
C18_SameReadbackProtocol ==
    /\ IsPrefix(SelectSeq(ProtocolSteps,
                          LAMBDA s : s \in {ReadbackProtocol[i] :
                                              i \in 1..Len(ReadbackProtocol)}),
                ReadbackProtocol)
    /\ prog = "sums" =>
         /\ IsPrefix(ProtocolSteps, SumsProtocol)
         /\ calls > 0 =>
              /\ n % elements_per_group = 0
              /\ dispatch_groups = n \div elements_per_group
              /\ Len(partials_buffer.data) = n \div elements_per_group
         /\ \A i \in 1..Len(Commands) :
              Commands[i].op = "dispatch" => Commands[i].kernel = "sums"
         /\ FailedRun => result \in SumsErrors
    /\ prog = "intro" =>
         /\ IsPrefix(ProtocolSteps, IntroProtocol)
         /\ pc # "panicked"
         /\ calls > 0 =>
              /\ dispatch_groups =
                   (n + elements_per_group - 1) \div elements_per_group
              /\ Len(partials_buffer.data) = n
         /\ \A i \in 1..Len(Commands) :
              Commands[i].op = "dispatch" => Commands[i].kernel = "intro"
         /\ FailedRun => result \in IntroErrors

C18_Witness ==
    /\ prog = "intro"
    /\ n % elements_per_group # 0
    /\ result = "ok"
    /\ ProtocolSteps = IntroProtocol

\* The host is about to submit: queue.submit is its next statement.
AtSubmission == pc \in {"submit", "i_submit"}

\* An earlier readback ended in a signal that never fired.
SignalDropped == \E i \in 1..Len(channels) : channels[i].state = "closed"

\* C19 as stated: at every submission the staging buffer is neither mapped
\* nor has a map request pending, whatever the earlier calls ended in.
C19_StagingFreeAtSubmission ==
    AtSubmission => staging.map = "unmapped"

\* C19 amended: it is so after earlier calls that ended in success or in a
\* denied map; after a call whose signal never fired, the request that was
\* never answered is still pending at the next submission (line 195 returns
\* without an unmap), on a device that is lost.
C19_StagingFreeUnlessSignalDropped ==
    /\ AtSubmission /\ ~SignalDropped => staging.map = "unmapped"
    /\ AtSubmission /\ SignalDropped =>
         staging.map = "pending" /\ device = "lost"
    /\ AtSubmission => ~data /\ Len(channels) = calls - 1
                       /\ \A i \in 1..Len(channels) :
                            channels[i].state # "armed"

C19_Witness ==
    /\ pc = "submit"
    /\ calls = 2
    /\ channels[1].value = "err"
    /\ staging.map = "unmapped"
    /\ device = "ready"

\* C20: parallel_sums_64::run returns Ok(()) after its report whenever the
\* readback succeeded, whether or not the total matches the expected value;
\* it returns an error only when the acquisition failed (nothing created,
\* nothing dispatched) or the readback failed (nothing read, no report).
C20_MismatchIsNotFailure ==
    prog = "sums" /\ caller = "run" =>
        /\ Has("return_partials") =>
             /\ pc \in {"reduce", "done"}
             /\ readout.kind = "owned"
             /\ pc = "done" => result = "ok" /\ Has("report")
        /\ pc = "done" => result \in {"ok"} \cup SumsErrors
        /\ pc = "done" /\ result \in {"No suitable GPU adapter found",
                                     "RequestDeviceError"} =>
             /\ calls = 0
             /\ input_buffer.state = "absent"
             /\ hist[Len(hist) - 1] \in {"request_adapter", "request_device"}
        /\ pc = "done" /\ result \in {"map callback failed",
                                     "BufferAsyncError"} =>
             /\ Has("receive")
             /\ readout.kind = "none"
             /\ ~Has("report")
        /\ result = "ok" => Has("report") /\ pc = "done"
        /\ pc = "panicked" => n % elements_per_group # 0

C20_Witness ==
    RunCompleted /\ gpu_total # expected /\ Has("report")

=============================================================================
